---- MODULE Spec2Model ----
(***************************************************************************)
(* Baalencer: a round-robin TCP load balancer (src/src/main.rs).           *)
(*                                                                         *)
(* The model follows the three parts of the program:                       *)
(*   - LoadBalancer::new / next_backend : the mutex-guarded VecDeque,      *)
(*   - LoadBalancer::handle_client      : one thread per accepted client,  *)
(*   - LoadBalancer::start              : the accept loop.                 *)
(* Every statement of next_backend and every socket operation of           *)
(* handle_client is one step of the thread that runs it, so all            *)
(* interleavings of the handler threads are explored.  The spawned         *)
(* threads are anonymous, so the running handlers are a bag of their       *)
(* local states.                                                           *)
(*                                                                         *)
(* Specifications:                                                         *)
(*   Spec          all interleavings, no fairness (safety properties);     *)
(*   OversizedSpec one connection whose client has sent about a buffer's   *)
(*                 worth of bytes (the 4096-byte read);                    *)
(*   StallSpec     fair scheduling, but a read may block for ever;         *)
(*   FairSpec      fair scheduling, every socket operation returns.        *)
(***************************************************************************)
EXTENDS Integers, Sequences, FiniteSets, Bags, TLC

(* ---------------------------- bounds ---------------------------------- *)

\* longest configured backend list
MaxBackends == 2
\* handler threads alive at the same time
MaxThreads == 2
\* items listener.incoming() yields in all (connections and errors)
MaxIncoming == 3

(* ------------------------ program constants --------------------------- *)

\* let mut buffer = [0; 4096];
BufSize == 4096

\* "HTTP/1.1 502 Bad Gateway\r\n\r\nBackend server unavailable".as_bytes()
error_response_502 ==
    << 72, 84, 84, 80, 47, 49, 46, 49, 32, 53, 48, 50, 32, 66, 97, 100, 32,
       71, 97, 116, 101, 119, 97, 121, 13, 10, 13, 10, 66, 97, 99, 107, 101,
       110, 100, 32, 115, 101, 114, 118, 101, 114, 32, 117, 110, 97, 118, 97,
       105, 108, 97, 98, 108, 101 >>

\* "HTTP/1.1 503 Service Unavailable\r\n\r\nNo backend servers available".as_bytes()
error_response_503 ==
    << 72, 84, 84, 80, 47, 49, 46, 49, 32, 53, 48, 51, 32, 83, 101, 114, 118,
       105, 99, 101, 32, 85, 110, 97, 118, 97, 105, 108, 97, 98, 108, 101, 13,
       10, 13, 10, 78, 111, 32, 98, 97, 99, 107, 101, 110, 100, 32, 115, 101,
       114, 118, 101, 114, 115, 32, 97, 118, 97, 105, 108, 97, 98, 108, 101 >>

(* --------------------------- environment ------------------------------ *)

\* the addresses a configuration may name, in the order of first use
AddressOrder == << "a", "b", "c" >>
Addresses == { AddressOrder[i] : i \in 1 .. Len(AddressOrder) }

PING == << 80, 73, 78, 71 >>
PONG == << 80, 79, 78, 71 >>

\* what a client may have sent by the time of the handler's read
ClientPayloads == { << >>, PING }
\* k bytes
Bytes(k) == [ i \in 1 .. k |-> i % 256 ]

\* what a client may have sent around the size of the handler's buffer
LongPayloads ==
    { Bytes(BufSize - 1), Bytes(BufSize), Bytes(BufSize + 1), Bytes(BufSize + 10) }

\* what a backend may send before it closes its connection
BackendPayloads == { << >>, PONG }

Min(x, y) == IF x < y THEN x ELSE y

Prefix(s, k) == SubSeq(s, 1, k)

IsPrefix(p, s) == Len(p) <= Len(s) /\ p = Prefix(s, Len(p))

\* the lists of length <= k over Addresses
RECURSIVE ListsUpTo(_)
ListsUpTo(k) ==
    IF k = 0 THEN { << >> }
    ELSE LET shorter == ListsUpTo(k - 1)
         IN  shorter \cup { Append(l, a) : l \in shorter, a \in Addresses }

\* The program never looks into an address, it only copies and compares
\* them, so a configuration is taken up to renaming: the first address it
\* names is a, the next new one b, the next new one c.
FirstUseOrder(l) ==
    \A i \in 1 .. Len(l) :
        \A j \in 2 .. Len(AddressOrder) :
            l[i] = AddressOrder[j] =>
                \E m \in 1 .. i - 1 : l[m] = AddressOrder[j - 1]

\* the configurations explored
Configurations == { l \in ListsUpTo(MaxBackends) : FirstUseOrder(l) }

(* ------------------------------ types --------------------------------- *)

\* struct Backend { address: String }
Backend(addr) == [address |-> addr]

\* Option<T>
None == << >>
Some(x) == << x >>
IsSome(o) == o # None
Unwrap(o) == o[1]

(* ----------------------------- VecDeque ------------------------------- *)

\* mutant: the popped backend is put back at the front
push_front(q, x) == << x >> \o q

\* VecDeque::push_back
push_back(q, x) == Append(q, x)

\* mutant: an empty deque yields a default backend instead of None
pop_front_or_default(q) ==
    IF q = << >> THEN Some(Backend("a")) ELSE Some(Head(q))

\* VecDeque::pop_front: the removed front element, if any
pop_front(q) == IF q = << >> THEN None ELSE Some(Head(q))

\* mutant: the element is taken off the back of the deque
drop_back(q) == IF q = << >> THEN q ELSE Prefix(q, Len(q) - 1)

\* the deque pop_front leaves behind
pop_front_rest(q) == IF q = << >> THEN q ELSE Tail(q)

\* LoadBalancer::new: push_back every address, in the order given
RECURSIVE new(_)
new(addrs) ==
    IF addrs = << >> THEN << >>
    ELSE push_back(new(Prefix(addrs, Len(addrs) - 1)),
                   Backend(addrs[Len(addrs)]))

(* ------------------------------ state --------------------------------- *)

VARIABLES
    backend_addresses,  \* the Vec<String> given to LoadBalancer::new
    payloads,           \* what a client of this run may have sent when read
    backends,           \* the VecDeque<Backend> inside Arc<Mutex<..>>
    mutex,              \* TRUE while a MutexGuard of `backends` is alive
    incoming,           \* how many items listener.incoming() has yielded
    stream,             \* the item the accept loop took last, if any
    threads,            \* the bag of the running handler threads' locals
    acquired,           \* history: how many times the lock has been taken
    returned,           \* history: values next_backend returned, in order
    reads_ok,           \* history: how many client reads have returned Ok
    rotations           \* history: how many push_back calls have been made

config_vars == << backend_addresses, payloads >>
pool_vars == << backends, mutex >>
listener_vars == << incoming, stream >>
hist_vars == << acquired, returned, reads_ok, rotations >>
vars == << config_vars, pool_vars, listener_vars, threads, hist_vars >>

\* the locals of a handler thread that has just been spawned:
\*   pc          where the thread is
\*   client_in   bytes the client has sent when the handler reads
\*   n           let n = client_stream.read(&mut buffer)?
\*   buffer      buffer[..n]
\*   backend     the local `backend` of next_backend / handle_client
\*   dialed      addresses given to TcpStream::connect, in order
\*   backend_out bytes the backend sent before closing
\*   backend_in  bytes written to backend_stream
\*   response    let mut response = Vec::new()
\*   client_out  bytes written to client_stream
\*   result      the io::Result<()> of handle_client
\*   ticket      history: j while the thread, j-th to take the lock, holds it
\*   calls       history: the next_backend calls the thread has completed
\*   errors      history: the socket operations that returned Err
\*   wrote       history: what client_stream.write_all was given, if called
\*   ops         history: the calls of handle_client that have come back
\*   open        the TcpStreams the thread owns (not yet dropped)
Spawned(sent) ==
    [ pc |-> "read", client_in |-> sent, n |-> 0, buffer |-> << >>,
      backend |-> None, dialed |-> << >>, backend_out |-> << >>,
      backend_in |-> << >>, response |-> << >>, client_out |-> << >>,
      result |-> "running", ticket |-> 0, calls |-> 0, errors |-> {},
      wrote |-> "nothing", ops |-> << >>, open |-> {"client_stream"} ]

\* the distinct local states of the running handlers
Handlers == BagToSet(threads)

\* the number of running handler threads
Live == BagCardinality(threads)

\* one thread moves from local state t to local state u; the others stay
Moves(t, u) == threads' = (threads (-) SetToBag({t})) (+) SetToBag({u})

Init ==
    /\ backend_addresses \in Configurations
    /\ payloads = ClientPayloads
    /\ backends = new(backend_addresses)
    /\ mutex = FALSE
    /\ incoming = 0
    /\ stream = "none"
    /\ threads = EmptyBag
    /\ acquired = 0
    /\ returned = << >>
    /\ reads_ok = 0
    /\ rotations = 0

\* the state after k accepts have failed (each is only logged), when the
\* clients to come are ones that send one of `sendable`
AfterFailedAccepts(k, sendable) ==
    /\ backend_addresses \in Configurations
    /\ payloads = sendable
    /\ backends = new(backend_addresses)
    /\ mutex = FALSE
    /\ incoming = k
    /\ stream = IF k = 0 THEN "none" ELSE "Err"
    /\ threads = EmptyBag
    /\ acquired = 0
    /\ returned = << >>
    /\ reads_ok = 0
    /\ rotations = 0

(* ------------------------- LoadBalancer::start ------------------------ *)

\* for stream in listener.incoming(): the iterator never yields None, so
\* the loop is left ("end") by no step of the program
Listening == stream # "end"

\* mutant: the loop joins the spawned thread before it takes the next item
AcceptJoined ==
    /\ Listening
    /\ incoming < MaxIncoming
    /\ threads = EmptyBag
    /\ \E sent \in payloads :
          threads' = threads (+) SetToBag({Spawned(sent)})
    /\ incoming' = incoming + 1
    /\ stream' = "Ok"
    /\ UNCHANGED << config_vars, pool_vars, hist_vars >>

\* Ok(client_stream) => { let balancer = self.clone(); thread::spawn(..) }
Accept ==
    /\ Listening
    /\ incoming < MaxIncoming
    /\ Live < MaxThreads
    /\ \E sent \in payloads :
          threads' = threads (+) SetToBag({Spawned(sent)})
    /\ incoming' = incoming + 1
    /\ stream' = "Ok"
    /\ UNCHANGED << config_vars, pool_vars, hist_vars >>

\* mutant: a failed accept ends the loop, start returns
AcceptErrStops ==
    /\ Listening
    /\ incoming < MaxIncoming
    /\ incoming' = incoming + 1
    /\ stream' = "end"
    /\ UNCHANGED << config_vars, pool_vars, threads, hist_vars >>

\* Err(e) => println!("Error accepting connection {}", e)
AcceptErr ==
    /\ Listening
    /\ incoming < MaxIncoming
    /\ incoming' = incoming + 1
    /\ stream' = "Err"
    /\ UNCHANGED << config_vars, pool_vars, threads, hist_vars >>

(* ---------------------- LoadBalancer::handle_client ------------------- *)

\* mutant: the streams are leaked (never dropped) when handle_client returns
FinishLeaking(t, res) == [t EXCEPT !.pc = "returned", !.result = res]

\* handle_client returns Ok(()) or, through `?`, Err(e); client_stream and
\* backend_stream go out of scope and are dropped, which closes them
Finish(t, res) == [t EXCEPT !.pc = "returned", !.result = res, !.open = {}]

\* the spawned closure: if let Err(e) = balancer.handle_client(..) { println!(..) }
\* then the thread ends; its locals are dropped and both streams closed
Exit(t) ==
    /\ t.pc = "returned"
    /\ threads' = threads (-) SetToBag({t})
    /\ UNCHANGED << config_vars, pool_vars, listener_vars, hist_vars >>

\* mutant: the read returns all the client has sent, whatever the buffer
ReadCountsAll(sent) == {Len(sent)}

\* the byte counts one read of the client's bytes may return: 0 only at
\* end-of-stream, otherwise what has arrived, at most the buffer
ReadCounts(sent) ==
    IF sent = << >> THEN {0} ELSE {Min(Len(sent), BufSize)}

\* the byte counts a failed write_all of data may have written before
PartialCounts(data) == { k \in {0, Len(data) - 1} : 0 <= k /\ k < Len(data) }

\* mutant: a read of 0 bytes (end-of-stream) ends the handler with Ok
ClientReadOkEofStops(t) ==
    /\ t.pc = "read"
    /\ \E k \in ReadCounts(t.client_in) :
          Moves(t, IF k = 0
                   THEN Finish([t EXCEPT !.ops = Append(@, "client_stream.read")],
                               "Ok")
                   ELSE [t EXCEPT !.n = k, !.buffer = Prefix(t.client_in, k),
                                  !.ops = Append(@, "client_stream.read"),
                                  !.pc = "lock"])
    /\ reads_ok' = reads_ok + 1
    /\ UNCHANGED << config_vars, pool_vars, listener_vars, acquired, returned,
                    rotations >>

\* let n = client_stream.read(&mut buffer)?   (Ok)
ClientReadOk(t) ==
    /\ t.pc = "read"
    /\ \E k \in ReadCounts(t.client_in) :
          Moves(t, [t EXCEPT !.n = k, !.buffer = Prefix(t.client_in, k),
                             !.ops = Append(@, "client_stream.read"),
                             !.pc = "lock"])
    /\ reads_ok' = reads_ok + 1
    /\ UNCHANGED << config_vars, pool_vars, listener_vars, acquired, returned,
                    rotations >>

\* mutant: a failed client read is taken for a read of 0 bytes
ClientReadErrIgnored(t) ==
    /\ t.pc = "read"
    /\ Moves(t, [t EXCEPT !.errors = @ \cup {"client_read"},
                          !.ops = Append(@, "client_stream.read"),
                          !.pc = "lock"])
    /\ UNCHANGED << config_vars, pool_vars, listener_vars, hist_vars >>

\* let n = client_stream.read(&mut buffer)?   (Err)
ClientReadErr(t) ==
    /\ t.pc = "read"
    /\ Moves(t, Finish([t EXCEPT !.errors = @ \cup {"client_read"},
                                 !.ops = Append(@, "client_stream.read")],
                        "Err"))
    /\ UNCHANGED << config_vars, pool_vars, listener_vars, hist_vars >>

(* ---------------------- LoadBalancer::next_backend -------------------- *)

\* mutant: the thread goes on without waiting for the guard to be dropped
LockNoWait(t) ==
    /\ t.pc = "lock"
    /\ mutex' = TRUE
    /\ acquired' = acquired + 1
    /\ Moves(t, [t EXCEPT !.pc = "pop", !.ticket = acquired + 1])
    /\ UNCHANGED << config_vars, backends, listener_vars, returned, reads_ok,
                    rotations >>

\* let mut backends = self.backends.lock().unwrap();
Lock(t) ==
    /\ t.pc = "lock"
    /\ ~mutex
    /\ mutex' = TRUE
    /\ acquired' = acquired + 1
    /\ Moves(t, [t EXCEPT !.pc = "pop", !.ticket = acquired + 1])
    /\ UNCHANGED << config_vars, backends, listener_vars, returned, reads_ok,
                    rotations >>

\* if let Some(backend) = backends.pop_front() { .. } else { None }
PopFront(t) ==
    /\ t.pc = "pop"
    /\ backends' = pop_front_rest(backends)
    /\ Moves(t, [t EXCEPT !.backend = pop_front(backends),
                          !.pc = IF IsSome(pop_front(backends))
                                 THEN "push" ELSE "return"])
    /\ UNCHANGED << config_vars, mutex, listener_vars, hist_vars >>

\* mutant: the popped backend is never pushed back
PushBackSkipped(t) ==
    /\ t.pc = "push"
    /\ Moves(t, [t EXCEPT !.pc = "return"])
    /\ UNCHANGED << config_vars, pool_vars, listener_vars, hist_vars >>

\* backends.push_back(backend.clone());
PushBack(t) ==
    /\ t.pc = "push"
    /\ backends' = push_back(backends, Unwrap(t.backend))
    /\ rotations' = rotations + 1
    /\ Moves(t, [t EXCEPT !.pc = "return"])
    /\ UNCHANGED << config_vars, mutex, listener_vars, acquired, returned,
                    reads_ok >>

\* mutant: the MutexGuard outlives next_backend, the lock is not released
ReturnKeepsGuard(t) ==
    /\ t.pc = "return"
    /\ returned' = Append(returned, t.backend)
    /\ Moves(t, [t EXCEPT !.ticket = 0,
                          !.calls = @ + 1,
                          !.ops = Append(@, "next_backend"),
                          !.pc = IF IsSome(t.backend) THEN "connect"
                                                      ELSE "write503"])
    /\ UNCHANGED << config_vars, pool_vars, listener_vars, acquired, reads_ok,
                    rotations >>

\* Some(backend) / None is returned and the MutexGuard dropped;
\* handle_client: if let Some(backend) = self.next_backend() { .. } else { .. }
Return(t) ==
    /\ t.pc = "return"
    /\ mutex' = FALSE
    /\ returned' = Append(returned, t.backend)
    /\ Moves(t, [t EXCEPT !.ticket = 0,
                          !.calls = @ + 1,
                          !.ops = Append(@, "next_backend"),
                          !.pc = IF IsSome(t.backend) THEN "connect"
                                                      ELSE "write503"])
    /\ UNCHANGED << config_vars, backends, listener_vars, acquired, reads_ok,
                    rotations >>

(* ------------------ handle_client, after the selection ---------------- *)

\* match TcpStream::connect(&backend.address) { Ok(mut backend_stream) => ..
ConnectOk(t) ==
    /\ t.pc = "connect"
    /\ Moves(t, [t EXCEPT !.dialed = Append(@, Unwrap(t.backend).address),
                          !.ops = Append(@, "connect"),
                          !.open = @ \cup {"backend_stream"},
                          !.pc = "backend_write"])
    /\ UNCHANGED << config_vars, pool_vars, listener_vars, hist_vars >>

\* mutant: a failed connect makes the handler select another backend
ConnectErrRetry(t) ==
    /\ t.pc = "connect"
    /\ Moves(t, [t EXCEPT !.dialed = Append(@, Unwrap(t.backend).address),
                          !.ops = Append(@, "connect"),
                          !.errors = @ \cup {"connect"},
                          !.pc = "lock"])
    /\ UNCHANGED << config_vars, pool_vars, listener_vars, hist_vars >>

\* match TcpStream::connect(&backend.address) { .. Err(e) => ..
ConnectErr(t) ==
    /\ t.pc = "connect"
    /\ Moves(t, [t EXCEPT !.dialed = Append(@, Unwrap(t.backend).address),
                          !.ops = Append(@, "connect"),
                          !.errors = @ \cup {"connect"},
                          !.pc = "write502"])
    /\ UNCHANGED << config_vars, pool_vars, listener_vars, hist_vars >>

\* mutant: the request is forwarded without its last byte
BackendWriteShort(t) ==
    /\ t.pc = "backend_write"
    /\ Moves(t, [t EXCEPT !.backend_in =
                              @ \o Prefix(t.buffer, IF t.n = 0 THEN 0 ELSE t.n - 1),
                          !.ops = Append(@, "backend_stream.write_all"),
                          !.pc = "backend_read"])
    /\ UNCHANGED << config_vars, pool_vars, listener_vars, hist_vars >>

\* backend_stream.write_all(&buffer[..n])?   (Ok)
BackendWriteOk(t) ==
    /\ t.pc = "backend_write"
    /\ Moves(t, [t EXCEPT !.backend_in = @ \o Prefix(t.buffer, t.n),
                          !.ops = Append(@, "backend_stream.write_all"),
                          !.pc = "backend_read"])
    /\ UNCHANGED << config_vars, pool_vars, listener_vars, hist_vars >>

\* backend_stream.write_all(&buffer[..n])?   (Err: some bytes may be out)
BackendWriteErr(t) ==
    /\ t.pc = "backend_write"
    /\ \E k \in PartialCounts(Prefix(t.buffer, t.n)) :
          Moves(t, Finish([t EXCEPT !.backend_in = @ \o Prefix(t.buffer, k),
                                    !.ops = Append(@, "backend_stream.write_all"),
                                    !.errors = @ \cup {"backend_write"}],
                          "Err"))
    /\ UNCHANGED << config_vars, pool_vars, listener_vars, hist_vars >>

\* mutant: the response is streamed to the client while it is being read
BackendReadOkStreaming(t) ==
    /\ t.pc = "backend_read"
    /\ \E reply \in BackendPayloads :
          Moves(t, [t EXCEPT !.backend_out = reply,
                             !.ops = Append(@, "backend_stream.read_to_end"),
                             !.response = @ \o reply,
                             !.client_out = @ \o reply,
                             !.pc = "relay"])
    /\ UNCHANGED << config_vars, pool_vars, listener_vars, hist_vars >>

\* backend_stream.read_to_end(&mut response)?   (Ok: the backend has sent
\* `reply` and closed)
BackendReadOk(t) ==
    /\ t.pc = "backend_read"
    /\ \E reply \in BackendPayloads :
          Moves(t, [t EXCEPT !.backend_out = reply,
                             !.ops = Append(@, "backend_stream.read_to_end"),
                             !.response = @ \o reply,
                             !.pc = "relay"])
    /\ UNCHANGED << config_vars, pool_vars, listener_vars, hist_vars >>

\* mutant: a failed read of the backend's response is answered with 502
BackendReadErr502(t) ==
    /\ t.pc = "backend_read"
    /\ Moves(t, [t EXCEPT !.errors = @ \cup {"backend_read"},
                          !.ops = Append(@, "backend_stream.read_to_end"),
                          !.pc = "write502"])
    /\ UNCHANGED << config_vars, pool_vars, listener_vars, hist_vars >>

\* backend_stream.read_to_end(&mut response)?   (Err: `?` returns at once
\* and the Vec is dropped with whatever it had collected)
BackendReadErr(t) ==
    /\ t.pc = "backend_read"
    /\ Moves(t, Finish([t EXCEPT !.errors = @ \cup {"backend_read"},
                                 !.ops = Append(@, "backend_stream.read_to_end")],
                        "Err"))
    /\ UNCHANGED << config_vars, pool_vars, listener_vars, hist_vars >>

\* mutant: the two fixed responses are swapped
OutgoingSwapped(t) ==
    CASE t.pc = "write503" -> error_response_502
      [] t.pc = "write502" -> error_response_503
      [] OTHER             -> t.response

\* the bytes the pending client_stream.write_all is given
Outgoing(t) ==
    CASE t.pc = "write503" -> error_response_503
      [] t.pc = "write502" -> error_response_502
      [] OTHER             -> t.response

Writing(t) == t.pc \in {"write503", "write502", "relay"}

\* which of the three client_stream.write_all calls is pending
Kind(t) ==
    CASE t.pc = "write503" -> "503"
      [] t.pc = "write502" -> "502"
      [] OTHER             -> "response"

\* client_stream.write_all(..)?; Ok(())
ClientWriteOk(t) ==
    /\ Writing(t)
    /\ Moves(t, Finish([t EXCEPT !.client_out = @ \o Outgoing(t),
                                 !.ops = Append(@, "client_stream.write_all"),
                                 !.wrote = Kind(t)], "Ok"))
    /\ UNCHANGED << config_vars, pool_vars, listener_vars, hist_vars >>

\* mutant: a failed client write takes the selected backend back to the
\* front of the pool
ClientWriteErrUndo(t) ==
    /\ Writing(t)
    /\ \E k \in PartialCounts(Outgoing(t)) :
          Moves(t, Finish([t EXCEPT !.client_out = @ \o Prefix(Outgoing(t), k),
                                    !.ops = Append(@, "client_stream.write_all"),
                                    !.wrote = Kind(t),
                                    !.errors = @ \cup {"client_write"}],
                          "Err"))
    /\ backends' = IF backends = << >> THEN backends
                   ELSE << backends[Len(backends)] >>
                        \o Prefix(backends, Len(backends) - 1)
    /\ UNCHANGED << config_vars, mutex, listener_vars, hist_vars >>

\* client_stream.write_all(..)?   (Err: some bytes may be out)
ClientWriteErr(t) ==
    /\ Writing(t)
    /\ \E k \in PartialCounts(Outgoing(t)) :
          Moves(t, Finish([t EXCEPT !.client_out = @ \o Prefix(Outgoing(t), k),
                                    !.ops = Append(@, "client_stream.write_all"),
                                    !.wrote = Kind(t),
                                    !.errors = @ \cup {"client_write"}],
                          "Err"))
    /\ UNCHANGED << config_vars, pool_vars, listener_vars, hist_vars >>

(* --------------------------- specification ---------------------------- *)

Next ==
    \/ Accept
    \/ AcceptErr
    \/ \E t \in Handlers : ClientReadOk(t)
    \/ \E t \in Handlers : ClientReadErr(t)
    \/ \E t \in Handlers : Lock(t)
    \/ \E t \in Handlers : PopFront(t)
    \/ \E t \in Handlers : PushBack(t)
    \/ \E t \in Handlers : Return(t)
    \/ \E t \in Handlers : ConnectOk(t)
    \/ \E t \in Handlers : ConnectErr(t)
    \/ \E t \in Handlers : BackendWriteOk(t)
    \/ \E t \in Handlers : BackendWriteErr(t)
    \/ \E t \in Handlers : BackendReadOk(t)
    \/ \E t \in Handlers : BackendReadErr(t)
    \/ \E t \in Handlers : ClientWriteOk(t)
    \/ \E t \in Handlers : ClientWriteErr(t)
    \/ \E t \in Handlers : Exit(t)

Spec == Init /\ [][Next]_vars

\* one connection, of a client that has sent about a buffer's worth of bytes
OversizedInit == AfterFailedAccepts(MaxIncoming - 1, LongPayloads)

OversizedSpec == OversizedInit /\ [][Next]_vars

(* ----------------------------- scheduling ----------------------------- *)

\* Every thread that can take a step of its own is scheduled: a lock that
\* is free is granted to a thread waiting for it, the statements of
\* next_backend are executed, a thread whose handle_client has returned ends.
Scheduled ==
    /\ WF_vars(\E t \in Handlers : Lock(t))
    /\ WF_vars(\E t \in Handlers : PopFront(t))
    /\ WF_vars(\E t \in Handlers : PushBack(t))
    /\ WF_vars(\E t \in Handlers : Return(t))
    /\ WF_vars(\E t \in Handlers : Exit(t))

\* connect and the two write_all calls come back, with Ok or with Err
OutboundReturns ==
    /\ WF_vars(\E t \in Handlers : ConnectOk(t) \/ ConnectErr(t))
    /\ WF_vars(\E t \in Handlers : BackendWriteOk(t) \/ BackendWriteErr(t))
    /\ WF_vars(\E t \in Handlers : ClientWriteOk(t) \/ ClientWriteErr(t))

\* the client read and the read of the backend's response come back too
ReadsReturn ==
    /\ WF_vars(\E t \in Handlers : ClientReadOk(t) \/ ClientReadErr(t))
    /\ WF_vars(\E t \in Handlers : BackendReadOk(t) \/ BackendReadErr(t))

\* connections keep arriving at the listener
Arrivals == WF_vars(Accept)

\* The temporal properties are about what eventually happens from any point
\* on; they are explored from the point where a first accept has failed.
FairInit == AfterFailedAccepts(1, ClientPayloads)

\* fair scheduling where a read may block for ever: there is no timeout on
\* client_stream.read nor on backend_stream.read_to_end
StallSpec == FairInit /\ [][Next]_vars /\ Scheduled /\ OutboundReturns /\ Arrivals

\* fair scheduling where every socket operation eventually returns
FairSpec == FairInit /\ [][Next]_vars /\ Scheduled /\ OutboundReturns /\ ReadsReturn

(* ------------------------- derived quantities ------------------------- *)

PoolLen == Len(backend_addresses)

\* the configured order: one backend per configured address, as listed
ConfiguredOrder == [ i \in 1 .. PoolLen |-> Backend(backend_addresses[i]) ]

\* the backend at index (j-1) mod len of the configured order
Expected(j) == Backend(backend_addresses[((j - 1) % PoolLen) + 1])

\* how many running handlers have their local state in S
Copies(S, bag) == BagCardinality([ t \in S |-> bag[t] ])

\* the handlers between lock() and the drop of the MutexGuard
InSection == { t \in Handlers : t.pc \in {"pop", "push", "return"} }

\* the handlers blocked in lock()
Waiting == { t \in Handlers : t.pc = "lock" }

\* how often the sequence of Option<Backend> l holds the address a
Count(a, l) ==
    LET x == Some(Backend(a))
    IN  Cardinality({ j \in 1 .. Len(l) : l[j] = x })

\* what m sequential calls on the configured list return, in order
Sequential(m) == [ j \in 1 .. m |-> Some(Expected(j)) ]

Distinct(l) == \A i, j \in 1 .. Len(l) : l[i] = l[j] => i = j

Floor(m, k) == m \div k
Ceil(m, k) == (m + k - 1) \div k

(* ------------------------------- C1 ----------------------------------- *)

\* C1: for a non-empty configured list of length len, the n-th next_backend
\* call to return (the calls are serialised, none runs inside another)
\* returns the backend at index (n-1) mod len of the configured order.
C1_SequentialRoundRobin ==
    PoolLen >= 1 =>
        \A j \in 1 .. Len(returned) : returned[j] = Some(Expected(j))

\* three calls on [a, b] have returned a, b, a: the rotation has wrapped
C1_Witness ==
    /\ backend_addresses = << "a", "b" >>
    /\ returned = << Some(Backend("a")), Some(Backend("b")), Some(Backend("a")) >>

(* ------------------------------- C2 ----------------------------------- *)

\* C2: whatever the interleaving, after N calls have returned the multiset
\* of results is that of N sequential calls; for a pool of k distinct
\* backends each was returned floor(N/k) or ceil(N/k) times, so any two
\* counts differ by at most 1.
C2_NoDuplicateRotation ==
    PoolLen >= 1 =>
        LET N == Len(returned)
            used == { backend_addresses[i] : i \in 1 .. PoolLen }
            sequential == Sequential(N)
            times == [ a \in used |-> Count(a, returned) ]
        IN  /\ \A j \in 1 .. N : IsSome(returned[j])
            /\ \A a \in used : times[a] = Count(a, sequential)
            /\ Distinct(backend_addresses) =>
                 /\ \A a \in used :
                       times[a] \in { Floor(N, PoolLen), Ceil(N, PoolLen) }
                 /\ \A a, b \in used :
                       times[a] - times[b] \in { -1, 0, 1 }

\* two calls overlap (one holds the lock mid-rotation, one waits for it)
\* after a first call on [a, b] has already returned
C2_Witness ==
    /\ backend_addresses = << "a", "b" >>
    /\ Len(returned) = 1
    /\ \E t \in InSection : t.pc = "push"
    /\ Waiting # {}

(* ------------------------------- C3 ----------------------------------- *)

\* C3: at most one handler is between lock() and the drop of the guard,
\* every acquisition is followed by its return before the next one, and
\* the call that is j-th to take the lock pops (and returns) the backend at
\* index (j-1) mod len of the configured order.
C3_RotationLinearized ==
    LET section == InSection
        inside == Copies(section, threads)
    IN  /\ inside <= 1
        /\ mutex <=> (section # {})
        /\ acquired = Len(returned) + inside
        /\ \A t \in section :
              /\ t.ticket = acquired
              /\ (t.pc \in {"push", "return"} /\ PoolLen >= 1) =>
                    t.backend = Some(Expected(t.ticket))

\* the second acquirer is about to return b of [a, b] while another
\* handler waits for the lock
C3_Witness ==
    /\ backend_addresses = << "a", "b" >>
    /\ \E t \in InSection :
          /\ t.pc = "return"
          /\ t.ticket = 2
          /\ t.backend = Some(Backend("b"))
    /\ Waiting # {}

(* ------------------------------- C4 ----------------------------------- *)

\* C4: for a pool configured with zero backends every next_backend call
\* returns None, the pool stays empty, and the call always comes back to
\* handle_client (which then takes the 503 branch).
C4_EmptyPoolSafety ==
    PoolLen = 0 =>
        /\ backends = << >>
        /\ \A j \in 1 .. Len(returned) : returned[j] = None
        /\ \A t \in Handlers :
              /\ t.backend = None
              /\ t.pc # "push"
              /\ t.calls = 1 => (t.pc \in {"write503", "returned"}
                                 /\ t.dialed = << >>)

\* a call on the empty pool has returned None, a second is about to, a
\* third is waiting for the lock
C4_Witness ==
    /\ backend_addresses = << >>
    /\ returned = << None >>
    /\ \E t \in InSection : t.pc = "return"
    /\ Waiting # {}

(* ------------------------------- C5 ----------------------------------- *)

\* the bag of the elements of a sequence
SeqBag(q) ==
    [ x \in { q[i] : i \in 1 .. Len(q) } |->
        Cardinality({ i \in 1 .. Len(q) : q[i] = x }) ]

\* the handlers that have popped a backend and not yet pushed it back
MidRotation == { t \in Handlers : t.pc = "push" }

\* C5 as stated: in every reachable state the pool holds exactly the
\* configured backends, once per configured occurrence, with the configured
\* length.
C5_MembershipEveryState ==
    /\ Len(backends) = PoolLen
    /\ SeqBag(backends) = SeqBag(ConfiguredOrder)

\* C5 amended: whenever no next_backend call is between its pop_front and
\* its push_back (so whenever the lock is free) the pool holds exactly the
\* configured backends, once per configured occurrence; between the two
\* statements it lacks exactly the backend the lock holder has popped.
C5_MembershipOutsideRotation ==
    /\ MidRotation = {} =>
          /\ Len(backends) = PoolLen
          /\ SeqBag(backends) = SeqBag(ConfiguredOrder)
    /\ ~mutex => MidRotation = {}
    /\ \A t \in MidRotation :
          SeqBag(backends) (+) SetToBag({Unwrap(t.backend)})
             = SeqBag(ConfiguredOrder)

\* the lock is free, the order of [a, b] has changed to [b, a], and the
\* handler that rotated it has failed with an I/O error
C5_Witness ==
    /\ backend_addresses = << "a", "b" >>
    /\ backends = << Backend("b"), Backend("a") >>
    /\ ~mutex
    /\ \E t \in Handlers : t.calls = 1 /\ t.result = "Err"

(* ------------------------------- C6 ----------------------------------- *)

IsProperPrefix(p, s) == IsPrefix(p, s) /\ p # s

\* the handlers whose client read succeeded and whose next_backend call
\* returned None
GotNone == { t \in Handlers : t.calls >= 1 /\ t.backend = None }

\* C6 as stated: such a handler writes exactly the 503 bytes, attempts no
\* outbound connection and terminates with Ok.
C6_UnavailableAlwaysOk ==
    \A t \in GotNone :
        t.pc = "returned" =>
            /\ t.client_out = error_response_503
            /\ t.dialed = << >>
            /\ t.result = "Ok"

\* C6 amended: such a handler attempts no outbound connection and makes one
\* client write, of the 503 bytes; if the write succeeds the client has
\* exactly those bytes and the result is Ok, if it fails the client has a
\* proper prefix of them and the result is Err.
C6_UnavailableResponse ==
    \A t \in GotNone :
        /\ t.dialed = << >>
        /\ t.pc \in {"write503", "returned"}
        /\ t.pc = "write503" => (t.client_out = << >> /\ t.wrote = "nothing")
        /\ t.pc = "returned" =>
              /\ t.wrote = "503"
              /\ \/ /\ t.result = "Ok"
                    /\ t.errors = {}
                    /\ t.client_out = error_response_503
                 \/ /\ t.result = "Err"
                    /\ t.errors = {"client_write"}
                    /\ IsProperPrefix(t.client_out, error_response_503)

\* a handler on the empty pool has written the 503 bytes and returned Ok
C6_Witness ==
    \E t \in GotNone :
        /\ t.pc = "returned"
        /\ t.result = "Ok"
        /\ t.client_out = error_response_503

(* ------------------------------- C7 ----------------------------------- *)

\* the handlers whose TcpStream::connect failed
ConnectFailed == { t \in Handlers : "connect" \in t.errors }

\* C7 as stated: such a handler writes exactly the 502 bytes, terminates
\* with Ok, and has made one connect attempt and one selection.
C7_UnreachableAlwaysOk ==
    \A t \in ConnectFailed :
        t.pc = "returned" =>
            /\ t.client_out = error_response_502
            /\ t.result = "Ok"
            /\ Len(t.dialed) = 1
            /\ t.calls = 1

\* C7 amended: such a handler makes no retry (one connect attempt, to the
\* one backend it selected) and one client write, of the 502 bytes; if the
\* write succeeds the client has exactly those bytes and the result is Ok,
\* if it fails the client has a proper prefix of them and the result is Err.
C7_UnreachableResponse ==
    \A t \in ConnectFailed :
        /\ t.calls = 1
        /\ IsSome(t.backend)
        /\ t.dialed = << Unwrap(t.backend).address >>
        /\ t.backend_in = << >>
        /\ t.pc \in {"write502", "returned"}
        /\ t.pc = "write502" => (t.client_out = << >> /\ t.wrote = "nothing")
        /\ t.pc = "returned" =>
              /\ t.wrote = "502"
              /\ \/ /\ t.result = "Ok"
                    /\ t.errors = {"connect"}
                    /\ t.client_out = error_response_502
                 \/ /\ t.result = "Err"
                    /\ t.errors = {"connect", "client_write"}
                    /\ IsProperPrefix(t.client_out, error_response_502)

\* a handler has answered 502 and returned Ok after its one connect failed,
\* while another handler is connected to the other backend of the pool
C7_Witness ==
    \E t \in ConnectFailed :
        /\ t.pc = "returned"
        /\ t.result = "Ok"
        /\ t.client_out = error_response_502
        /\ \E u \in Handlers :
              /\ u.pc = "backend_read"
              /\ u.backend # t.backend

(* ------------------------------- C8 ----------------------------------- *)

\* the handlers that have relayed a backend's response without an I/O error
Relayed ==
    { t \in Handlers :
        t.pc = "returned" /\ t.result = "Ok" /\ t.wrote = "response" }

\* C8: when the connect succeeds and no I/O error occurs, the backend has
\* received exactly the bytes the handler read from the client, and the
\* client exactly the bytes the backend sent before closing.
C8_EndToEndRelay ==
    \A t \in Relayed :
        /\ t.errors = {}
        /\ t.buffer = Prefix(t.client_in, t.n)
        /\ t.backend_in = t.buffer
        /\ t.response = t.backend_out
        /\ t.client_out = t.backend_out
        /\ t.dialed = << Unwrap(t.backend).address >>

\* the client sent PING, the backend got PING, answered PONG and closed,
\* the client got PONG
C8_Witness ==
    \E t \in Relayed :
        /\ t.client_in = PING
        /\ t.backend_in = PING
        /\ t.backend_out = PONG
        /\ t.client_out = PONG

(* ------------------------------- C9 ----------------------------------- *)

\* C9 as stated: a backend connect, write or read failure (all of which
\* precede any relay to the client) makes the handler answer 502.
C9_AnyBackendFailureIs502 ==
    \A t \in Handlers :
        (t.pc = "returned"
         /\ t.errors \cap {"connect", "backend_write", "backend_read"} # {})
            => t.wrote = "502"

\* C9 amended: only a connect failure makes the handler answer 502; a
\* failure of the request write to the backend or of the read of its
\* response ends the handler with Err, without any write to the client.
C9_OnlyConnectFailureIs502 ==
    \A t \in Handlers :
        t.pc = "returned" =>
            /\ "connect" \in t.errors =>
                  /\ t.wrote = "502"
                  /\ IsPrefix(t.client_out, error_response_502)
                  /\ t.result = "Ok" => t.client_out = error_response_502
            /\ t.errors \cap {"backend_write", "backend_read"} # {} =>
                  /\ t.wrote = "nothing"
                  /\ t.client_out = << >>
                  /\ t.result = "Err"
            /\ t.wrote = "502" => "connect" \in t.errors

\* a handler has returned Err after the read of the backend's response
\* failed, and its client has no byte
C9_Witness ==
    \E t \in Handlers :
        /\ t.pc = "returned"
        /\ t.errors = {"backend_read"}
        /\ t.result = "Err"
        /\ t.client_out = << >>

(* ------------------------------- C10 ---------------------------------- *)

\* how many socket operations of the handler t have returned Err
ErrorTally(t) == Cardinality(t.errors)

\* the socket operations that have returned Err, over all running handlers
\* (a handler has five socket operations)
ErrorCount ==
    LET tally == BagOfAll(ErrorTally, threads)
    IN  CopiesIn(1, tally) + 2 * CopiesIn(2, tally) + 3 * CopiesIn(3, tally)
          + 4 * CopiesIn(4, tally) + 5 * CopiesIn(5, tally)

\* a step in which one handler's socket operation fails, seen from outside:
\* that handler alone moves (to its return, or to the 502 write after a
\* failed connect), keeping its selection; the pool, the lock, the listener
\* and every other handler are as before
IsolatedFailure ==
    /\ backends' = backends
    /\ mutex' = mutex
    /\ acquired' = acquired
    /\ returned' = returned
    /\ reads_ok' = reads_ok
    /\ rotations' = rotations
    /\ incoming' = incoming
    /\ stream' = stream
    /\ \E t \in Handlers :
          \E u \in BagToSet(threads') :
             /\ threads' = (threads (-) SetToBag({t})) (+) SetToBag({u})
             /\ t.errors \subseteq u.errors
             /\ Cardinality(u.errors) = Cardinality(t.errors) + 1
             /\ u.calls = t.calls
             /\ u.backend = t.backend
             /\ \/ u.pc = "returned" /\ u.result = "Err"
                \/ u.pc = "write502" /\ "connect" \in u.errors \ t.errors

\* C10: an I/O failure in one handler moves only that handler; the pool's
\* rotation is neither reverted nor advanced by it then or later (a handler
\* that has had a failure is past its selection and never selects again),
\* and the listener and the other handlers are untouched.
C10_FailureIsolation ==
    [][ /\ ErrorCount' > ErrorCount => IsolatedFailure
        /\ \A t \in Handlers :
              t.errors # {} =>
                 /\ t.pc \in {"write502", "returned"}
                 /\ t.calls <= 1
                 /\ t.ticket = 0 ]_vars

\* a handler has failed after its selection while another one is in flight,
\* the rotation it consumed is still applied and the listener can accept
C10_Witness ==
    /\ backend_addresses = << "a", "b" >>
    /\ \E t \in Handlers :
          /\ t.pc = "returned"
          /\ t.result = "Err"
          /\ t.calls = 1
          /\ t.backend = Some(Backend("a"))
    /\ \E u \in Handlers : u.pc = "backend_read" /\ u.errors = {}
    /\ backends = << Backend("a"), Backend("b") >>
    /\ Len(returned) = 2
    /\ incoming < MaxIncoming

(* ------------------------------- C11 ---------------------------------- *)

\* the step in which the accept loop takes an Err item
AcceptFailure == incoming' = incoming + 1 /\ stream' = "Err"

\* the step in which the accept loop takes an Ok item
AcceptSuccess == incoming' = incoming + 1 /\ stream' = "Ok"

\* C11: an accept failure spawns no handler and changes no pool state, and
\* the loop goes on: it is never left, after a failed accept the next
\* connection can be accepted, and every accepted connection (after a
\* failure too) gets one new handler of its own, the others staying as they
\* are.
C11_AcceptFailureRecoverable ==
    [][ /\ Listening /\ Listening'
        /\ incoming' # incoming => (AcceptFailure \/ AcceptSuccess)
        /\ AcceptFailure =>
              /\ threads' = threads
              /\ UNCHANGED << config_vars, pool_vars, hist_vars >>
        /\ AcceptSuccess =>
              /\ \E sent \in payloads :
                    threads' = threads (+) SetToBag({Spawned(sent)})
              /\ UNCHANGED << config_vars, pool_vars, hist_vars >>
        /\ (stream = "Err" /\ incoming < MaxIncoming /\ Live < MaxThreads) =>
              ENABLED Accept ]_vars

\* an accept has just failed while a handler holds the pool lock
\* mid-rotation, and the loop can accept the next connection
C11_Witness ==
    /\ stream = "Err"
    /\ incoming < MaxIncoming
    /\ \E t \in Handlers : t.pc = "push"
    /\ mutex
    /\ ENABLED Accept

(* ------------------------------- C12 ---------------------------------- *)

\* the handlers inside a read that may never return
Blocked == { t \in Handlers : t.pc \in {"read", "backend_read"} }

\* every running handler is inside such a read
AllBlocked == Blocked = Handlers

\* C12: under fair scheduling, with reads that may block for ever, (1) again
\* and again every handler still running is one blocked in a read, so every
\* handler that is not blocked runs to its end and a handler that has
\* returned Ok has given its client the complete response; (2) the accept
\* loop goes on taking the connections that arrive, stalled handlers or not,
\* until the bounds of the exploration are reached (all connections taken,
\* or every thread stalled in a read).
C12_StalledHandlerAffectsNoOne ==
    /\ []<>AllBlocked
    /\ [](\A t \in Handlers :
            (t.pc = "returned" /\ t.result = "Ok") =>
                t.client_out = (CASE t.wrote = "503" -> error_response_503
                                  [] t.wrote = "502" -> error_response_502
                                  [] OTHER           -> t.backend_out))
    /\ <>[](incoming = MaxIncoming \/ (Live = MaxThreads /\ AllBlocked))

\* on [a, b] the handler that selected a is still reading its backend's
\* response while the handler that selected b after it has relayed PONG
\* and returned, and the accept loop is still running
C12_Witness ==
    /\ backend_addresses = << "a", "b" >>
    /\ returned = << Some(Backend("a")), Some(Backend("b")) >>
    /\ \E t \in Blocked :
          /\ t.pc = "backend_read"
          /\ t.backend = Some(Backend("a"))
    /\ \E u \in Relayed :
          /\ u.backend = Some(Backend("b"))
          /\ u.client_out = PONG
    /\ Listening

(* ------------------------------- C13 ---------------------------------- *)

\* how often x occurs in the sequence l
Occurs(x, l) == Cardinality({ i \in 1 .. Len(l) : l[i] = x })

\* the handlers whose request write to the backend has succeeded
Forwarded ==
    { t \in Handlers :
        Occurs("backend_stream.write_all", t.ops) = 1
        /\ "backend_write" \notin t.errors }

\* C13: the handler reads its client once; what reaches the backend is a
\* prefix of what the client sent, never longer than the buffer; once the
\* request write has succeeded it is the first min(sent, 4096) bytes, so for
\* a client that had sent more than 4096 bytes exactly the first 4096.
C13_TruncationBoundary ==
    \A t \in Handlers :
        /\ Occurs("client_stream.read", t.ops) <= 1
        /\ t.n <= BufSize
        /\ t.buffer = Prefix(t.client_in, t.n)
        /\ IsPrefix(t.backend_in, t.client_in)
        /\ Len(t.backend_in) <= BufSize
        /\ t \in Forwarded =>
              /\ t.backend_in = Prefix(t.client_in, Min(Len(t.client_in), BufSize))
              /\ Len(t.client_in) > BufSize =>
                    /\ Len(t.backend_in) = BufSize
                    /\ t.backend_in = Prefix(t.client_in, BufSize)

\* the client had sent 4096 + 10 bytes, the backend has received the first
\* 4096 and the handler waits for its response
C13_Witness ==
    \E t \in Forwarded :
        /\ Len(t.client_in) = BufSize + 10
        /\ Len(t.backend_in) = BufSize
        /\ t.backend_in = Prefix(t.client_in, BufSize)
        /\ t.pc = "backend_read"

(* ------------------------------- C14 ---------------------------------- *)

\* the handlers whose client_stream.read returned Err
ClientReadFailed == { t \in Handlers : "client_read" \in t.errors }

\* C14: a handler whose client read failed has returned Err to the spawned
\* closure at once: that read is the only call it made (no retry, no
\* next_backend, no connect), its client has received no byte and no
\* backend has been dialed or written to.
C14_ClientReadFailure ==
    \A t \in ClientReadFailed :
        /\ t.pc = "returned"
        /\ t.result = "Err"
        /\ t.errors = {"client_read"}
        /\ t.ops = << "client_stream.read" >>
        /\ t.client_out = << >>
        /\ t.wrote = "nothing"
        /\ t.dialed = << >>
        /\ t.backend_in = << >>
        /\ t.calls = 0
        /\ t.backend = None
        /\ "backend_stream" \notin t.open

\* the read of a client that had sent PING has failed and its handler has
\* returned Err, while the pool of [a, b] is as configured
C14_Witness ==
    /\ backend_addresses = << "a", "b" >>
    /\ backends = << Backend("a"), Backend("b") >>
    /\ returned = << >>
    /\ \E t \in ClientReadFailed :
          /\ t.client_in = PING
          /\ t.pc = "returned"
          /\ t.result = "Err"

(* ------------------------------- C15 ---------------------------------- *)

\* the calls handle_client can make
Calls ==
    { "client_stream.read", "next_backend", "connect",
      "backend_stream.write_all", "backend_stream.read_to_end",
      "client_stream.write_all" }

\* the handlers whose handle_client has returned
Terminated == { t \in Handlers : t.pc = "returned" }

\* C15: when every socket operation eventually returns, every handler
\* terminates (again and again no handler thread is left); a handler that
\* has returned, on whichever path, owns no open stream; until then it holds
\* its client connection and, from the successful connect on, the one
\* backend connection; it makes each of its calls at most once.
C15_SingleExchangeAndClosure ==
    /\ []<>(threads = EmptyBag)
    /\ [](\A t \in Handlers :
            /\ t \in Terminated => t.open = {}
            /\ t \notin Terminated => "client_stream" \in t.open
            /\ "backend_stream" \in t.open <=>
                  t.pc \in {"backend_write", "backend_read", "relay"}
            /\ \A c \in Calls : Occurs(c, t.ops) <= 1
            /\ Len(t.dialed) <= 1
            /\ t.calls <= 1)

\* a handler has relayed its backend's response and returned, both of its
\* streams are closed; another one has returned Err from the read of its
\* backend's response, its streams are closed too
C15_Witness ==
    /\ \E t \in Relayed :
          /\ Len(t.ops) = 6
          /\ t.open = {}
    /\ \E u \in Terminated :
          /\ u.errors = {"backend_read"}
          /\ u.dialed # << >>
          /\ u.open = {}

(* ------------------------------- C16 ---------------------------------- *)

\* the handlers whose client read returned Ok(0)
ReadNothing ==
    { t \in Handlers :
        t.ops # << >> /\ "client_read" \notin t.errors /\ t.n = 0 }

\* the calls of a handler that relays, in the order of the code
RelayOrder ==
    << "client_stream.read", "next_backend", "connect",
       "backend_stream.write_all", "backend_stream.read_to_end",
       "client_stream.write_all" >>

\* C16: a handler whose client read returned 0 bytes goes on as any other:
\* it does not return before it has called next_backend (so it consumes a
\* rotation step), then it answers 503 if there was no backend, 502 if the
\* connect failed, and otherwise forwards the empty payload, reads the
\* backend's response to end-of-stream and writes it to the client.
C16_ZeroByteRequest ==
    \A t \in ReadNothing :
        /\ t.buffer = << >>
        /\ t.backend_in = << >>
        /\ "backend_write" \notin t.errors
        /\ t \in Terminated =>
              /\ t.calls = 1
              /\ Occurs("next_backend", t.ops) = 1
              /\ t.backend = None =>
                    (t.wrote = "503" /\ t.ops = << "client_stream.read",
                                                  "next_backend",
                                                  "client_stream.write_all" >>)
              /\ "connect" \in t.errors =>
                    (t.wrote = "502" /\ t.ops = << "client_stream.read",
                                                  "next_backend", "connect",
                                                  "client_stream.write_all" >>)
              /\ (IsSome(t.backend) /\ "connect" \notin t.errors) =>
                    /\ t.dialed = << Unwrap(t.backend).address >>
                    /\ Occurs("backend_stream.write_all", t.ops) = 1
                    /\ Occurs("backend_stream.read_to_end", t.ops) = 1
                    /\ "backend_read" \notin t.errors =>
                          (t.wrote = "response" /\ t.ops = RelayOrder)
              /\ t.result = "Ok" =>
                    t.client_out = (CASE t.wrote = "503" -> error_response_503
                                      [] t.wrote = "502" -> error_response_502
                                      [] OTHER           -> t.backend_out)

\* a client that sent nothing got PONG: its handler selected a of [a, b]
\* (the pool has rotated), sent a no bytes and relayed its response
C16_Witness ==
    /\ backend_addresses = << "a", "b" >>
    /\ backends = << Backend("b"), Backend("a") >>
    /\ \E t \in ReadNothing :
          /\ t \in Relayed
          /\ t.client_in = << >>
          /\ t.backend = Some(Backend("a"))
          /\ t.backend_in = << >>
          /\ t.client_out = PONG

(* ------------------------------- C17 ---------------------------------- *)

\* the handlers at (or inside) a socket operation
AtSocket ==
    { t \in Handlers :
        t.pc \in {"read", "connect", "backend_write", "backend_read",
                  "relay", "write502", "write503"} }

\* the handlers inside next_backend: waiting for the lock or holding it
InNextBackend == Waiting \cup InSection

\* C17: the lock is held only by a handler between lock() and the return
\* of next_backend, never by one at a socket operation or past its return;
\* whenever a handler waits for the lock, the lock is free or its holder
\* can take its next step (no deadlock on the pool); and under fair
\* scheduling, with reads that may block for ever, again and again no
\* handler is inside next_backend and the lock is free: every call returns.
C17_LockNeverHeldAcrossIO ==
    /\ [](/\ mutex <=> (InSection # {})
          /\ \A t \in AtSocket \cup Terminated : t.ticket = 0
          /\ \A t \in AtSocket : t \notin InSection
          /\ Waiting # {} =>
                (ENABLED (\E t \in Handlers : Lock(t))
                 \/ ENABLED (\E t \in InSection :
                                PopFront(t) \/ PushBack(t) \/ Return(t))))
    /\ []<>(InNextBackend = {} /\ ~mutex)

\* a handler is stalled in the read of its backend's response (it selected
\* a of [a, b] and released the lock) while another one holds the lock and
\* is about to return b
C17_Witness ==
    /\ backend_addresses = << "a", "b" >>
    /\ returned = << Some(Backend("a")) >>
    /\ \E t \in Blocked :
          /\ t.pc = "backend_read"
          /\ t.backend = Some(Backend("a"))
          /\ t.ticket = 0
    /\ \E u \in InSection :
          /\ u.pc = "return"
          /\ u.backend = Some(Backend("b"))
    /\ mutex

(* ------------------------------- C18 ---------------------------------- *)

\* the handlers that have passed the client read and are inside
\* next_backend before its push_back
BeforePush == { t \in Handlers : t.pc \in {"lock", "pop", "push"} }

\* C18: a handler calls next_backend at most once, and only after its
\* client read has returned Ok; one whose client read failed never enters
\* it.  For a non-empty pool the rotation steps applied are as many as the
\* client reads that succeeded, less the handlers still before their
\* push_back; so the calls that have returned are as many as the handlers
\* that have passed the read and completed the selection, however they end.
C18_OneSelectionPerHandler ==
    [](/\ \A t \in Handlers :
            /\ t.calls <= 1
            /\ Occurs("next_backend", t.ops) = t.calls
            /\ (t.calls = 1 \/ t \in InNextBackend) =>
                  /\ "client_read" \notin t.errors
                  /\ t.ops # << >>
                  /\ t.ops[1] = "client_stream.read"
            /\ t \in ClientReadFailed =>
                  (t.calls = 0 /\ t.ticket = 0 /\ t.backend = None)
            /\ (t \in Terminated /\ t \notin ClientReadFailed) => t.calls = 1
       /\ Len(returned) = reads_ok - Copies(InNextBackend, threads)
       /\ PoolLen >= 1 => rotations = reads_ok - Copies(BeforePush, threads)
       /\ PoolLen = 0 => rotations = 0)

\* on [a, b]: two client reads have succeeded; one of the two handlers has
\* completed its selection, and ended with Err after it, the other waits
\* for the lock: one rotation step, one call returned
C18_Witness ==
    /\ backend_addresses = << "a", "b" >>
    /\ reads_ok = 2
    /\ rotations = 1
    /\ Len(returned) = 1
    /\ backends = << Backend("b"), Backend("a") >>
    /\ Waiting # {}
    /\ \E t \in Terminated : t.calls = 1 /\ t.result = "Err"

(* ------------------------------- C19 ---------------------------------- *)

\* the bytes of the response kind the handler t has written, or begun to
Body(t) ==
    CASE t.wrote = "503" -> error_response_503
      [] t.wrote = "502" -> error_response_502
      [] OTHER           -> t.backend_out

\* C19: a handler calls client_stream.write_all at most once; before that
\* call the client has no byte, after it the client has bytes of one
\* response kind only (the whole body when the write succeeded, a proper
\* prefix of it when it failed): 503 when no backend was selected, 502 when
\* the connect failed, otherwise what the backend had sent when it closed.
\* The calls of a handler are a prefix of the order read, next_backend,
\* connect, write to backend, read to end, write to client (or of that order
\* cut short for 503 and 502), so the client gets no byte before
\* read_to_end has returned Ok, and none at all when it returned Err.
C19_SingleOrderedClientWrite ==
    [](\A t \in Handlers :
         LET writes == Occurs("client_stream.write_all", t.ops) IN
           /\ writes <= 1
           /\ writes = 0 => (t.client_out = << >> /\ t.wrote = "nothing")
           /\ writes = 1 =>
                 /\ t.wrote \in {"503", "502", "response"}
                 /\ t.ops[Len(t.ops)] = "client_stream.write_all"
                 /\ IsPrefix(t.client_out, Body(t))
                 /\ t.result = "Ok" => t.client_out = Body(t)
                 /\ t.result = "Err" => IsProperPrefix(t.client_out, Body(t))
                 /\ t.wrote = "503" <=> t.backend = None
                 /\ t.wrote = "502" <=> "connect" \in t.errors
                 /\ t.wrote = "response" =>
                       /\ t.ops = RelayOrder
                       /\ t.errors \subseteq {"client_write"}
                       /\ t.response = t.backend_out
           /\ \/ IsPrefix(t.ops, RelayOrder)
              \/ IsPrefix(t.ops, << "client_stream.read", "next_backend",
                                    "client_stream.write_all" >>)
              \/ IsPrefix(t.ops, << "client_stream.read", "next_backend",
                                    "connect", "client_stream.write_all" >>)
           /\ t.errors \cap {"backend_read", "backend_write", "client_read"} # {}
                 => t.client_out = << >>)

\* a backend has sent PONG and closed, and the handler has the whole
\* response but has not yet written to its client, which has no byte; the
\* other handler's read of its backend's response has failed and its client
\* has no byte either
C19_Witness ==
    /\ \E t \in Handlers :
          /\ t.pc = "relay"
          /\ t.response = PONG
          /\ t.client_out = << >>
    /\ \E u \in Terminated :
          /\ "backend_read" \in u.errors
          /\ u.client_out = << >>

(* ------------------------------- C20 ---------------------------------- *)

\* the sequence q rotated left by k places
RotateLeft(q, k) ==
    [ i \in 1 .. Len(q) |-> q[((i - 1 + k) % Len(q)) + 1] ]

\* C20: whenever no next_backend call is between its pop_front and its
\* push_back, the pool is the configured order rotated left by the number
\* of rotation steps made so far, mod len; with the lock free no call is
\* between the two and that number is the number m of completed calls.
C20_CyclicRotation ==
    PoolLen >= 1 =>
        /\ MidRotation = {} =>
              backends = RotateLeft(ConfiguredOrder, rotations % PoolLen)
        /\ ~mutex => (MidRotation = {} /\ rotations = Len(returned))

\* after three completed calls the pool of [a, b] is [b, a], the lock is
\* free and a handler that made one of the calls is still running
C20_Witness ==
    /\ backend_addresses = << "a", "b" >>
    /\ Len(returned) = 3
    /\ ~mutex
    /\ backends = << Backend("b"), Backend("a") >>
    /\ \E t \in Handlers : t.calls = 1 /\ t \notin Terminated

====
